---- MODULE Spec2Model ----
(***************************************************************************)
(* Model of the broken-links checker (link_checker.py, sandbox.py).        *)
(*                                                                         *)
(* One LinkChecker instance is followed from the command line (main) or    *)
(* from check_broken_links, through run_check, the crawl loop,             *)
(* check_links_on_page and check_single_link, to the report and the exit   *)
(* code.  Every call into the renderer or the sandbox provider is a step   *)
(* of its own, because each of them may return or raise.                   *)
(***************************************************************************)
EXTENDS Integers, Sequences, FiniteSets, TLC

\* ---------------------------------------------------------------- bounds
MaxPages == 2      \* --max-pages is drawn from 0..MaxPages
MaxLinks == 2      \* a rendered page carries at most MaxLinks anchors
MaxRuns  == 2      \* run_check is called at most MaxRuns times on one instance

\* ------------------------------------------------------- the URL universe
\* URL strings the command line may be given (args.url).
RawSeeds == {"https://a.com/", "a.com", ""}

\* href attributes a rendered page may carry (absolute paths, an external
\* absolute URL, a scheme-only target without host, a link back to the seed).
Hrefs == {"/about", "/missing", "https://b.org/", "mailto:x@a.com", "https://a.com/"}

\* An href on which urljoin raises ValueError ("Invalid IPv6 URL").
BadHref == "http://["

\* Error messages of the renderer (str(e) of a failed page.goto).
Msgs == {"Timeout 60000ms exceeded", "net::ERR_NAME_NOT_RESOLVED"}

URLStrings ==
  {"https://a.com/", "https://a.com", "https://", "a.com", "", "/about",
   "/missing", "https://b.org/", "mailto:x@a.com", "https://a.com/about",
   "https://a.com/missing"}

\* urllib.parse.urlparse on the strings of the universe: scheme, netloc, path.
urlparse(u) ==
  CASE u = "https://a.com/"        -> [scheme |-> "https",  netloc |-> "a.com", path |-> "/"]
    [] u = "https://a.com"         -> [scheme |-> "https",  netloc |-> "a.com", path |-> ""]
    [] u = "https://"              -> [scheme |-> "https",  netloc |-> "",      path |-> ""]
    [] u = "a.com"                 -> [scheme |-> "",       netloc |-> "",      path |-> "a.com"]
    [] u = ""                      -> [scheme |-> "",       netloc |-> "",      path |-> ""]
    [] u = "/about"                -> [scheme |-> "",       netloc |-> "",      path |-> "/about"]
    [] u = "/missing"              -> [scheme |-> "",       netloc |-> "",      path |-> "/missing"]
    [] u = "https://b.org/"        -> [scheme |-> "https",  netloc |-> "b.org", path |-> "/"]
    [] u = "mailto:x@a.com"        -> [scheme |-> "mailto", netloc |-> "",      path |-> "x@a.com"]
    [] u = "https://a.com/about"   -> [scheme |-> "https",  netloc |-> "a.com", path |-> "/about"]
    [] u = "https://a.com/missing" -> [scheme |-> "https",  netloc |-> "a.com", path |-> "/missing"]

\* urllib.parse.urlunparse: the string whose components are r.
urlunparse(r) == CHOOSE u \in URLStrings : urlparse(u) = r

\* urllib.parse.uses_relative, restricted to the schemes of the universe.
uses_relative == {"", "https"}

\* urllib.parse.urljoin for hrefs that are absolute URLs or absolute paths.
urljoin(base, url) ==
  IF base = "" THEN url
  ELSE IF url = "" THEN base
  ELSE LET b == urlparse(base)
           p == urlparse(url)
           scheme == IF p.scheme = "" THEN b.scheme ELSE p.scheme
       IN  IF scheme # b.scheme \/ scheme \notin uses_relative THEN url
           ELSE IF p.netloc # "" THEN url
           ELSE urlunparse([scheme |-> scheme, netloc |-> b.netloc, path |-> p.path])

\* ------------------------------------------------------------- sequences
Range(s) == {s[i] : i \in 1..Len(s)}

SeqsUpTo(S, n) == UNION {[1..k -> S] : k \in 0..n}

\* Every rendered page the renderer may return: its anchors in document
\* order; one page carries the href that urljoin cannot resolve.
Contents == SeqsUpTo(Hrefs, MaxLinks) \cup {<<BadHref>>}

\* extract_links, line 78: urljoin raises on one of the hrefs of the page.
ExtractRaises(html_content) == BadHref \in Range(html_content)

\* Outcome of one page.goto: it returns, or raises with a message.
NavOutcomes ==
  {[raised |-> FALSE, msg |-> ""]} \cup {[raised |-> TRUE, msg |-> m] : m \in Msgs}

\* ------------------------------------------------------ pure program code
\* is_internal_link that accepts every URL.
is_internal_link_AcceptsAll(url, base_domain) == TRUE

\* LinkChecker.is_internal_link, with self.base_domain passed explicitly.
is_internal_link(url, base_domain) ==
  LET parsed == urlparse(url)
  IN  parsed.netloc = "" \/ parsed.netloc = base_domain

\* LinkChecker.extract_links: html_content is the sequence of href values of
\* the anchors in document order; the result keeps order and duplicates.
extract_links(html_content, current_url, base_domain) ==
  LET absolute == [i \in 1..Len(html_content) |-> urljoin(current_url, html_content[i])]
  IN  SelectSeq(absolute, LAMBDA l : is_internal_link(l, base_domain))

\* check_single_link recording the probed URL as its own parent page.
check_single_link_ParentIsUrl(url, parent_page, nav) ==
  IF ~nav.raised
  THEN [url |-> url, status |-> 200, status_text |-> "OK", is_broken |-> FALSE,
        parent_page |-> url, error_message |-> ""]
  ELSE [url |-> url, status |-> 0, status_text |-> "Navigation Error", is_broken |-> TRUE,
        parent_page |-> url, error_message |-> nav.msg]

\* check_single_link whose except branch forgets to mark the link broken.
check_single_link_NeverBroken(url, parent_page, nav) ==
  IF ~nav.raised
  THEN [url |-> url, status |-> 200, status_text |-> "OK", is_broken |-> FALSE,
        parent_page |-> parent_page, error_message |-> ""]
  ELSE [url |-> url, status |-> 0, status_text |-> "Navigation Error", is_broken |-> FALSE,
        parent_page |-> parent_page, error_message |-> nav.msg]

\* LinkChecker.check_single_link: nav is the outcome of page.goto(url).
check_single_link(url, parent_page, nav) ==
  IF ~nav.raised
  THEN [url |-> url, status |-> 200, status_text |-> "OK", is_broken |-> FALSE,
        parent_page |-> parent_page, error_message |-> ""]
  ELSE [url |-> url, status |-> 0, status_text |-> "Navigation Error", is_broken |-> TRUE,
        parent_page |-> parent_page, error_message |-> nav.msg]

\* generate_report that shows the banner when there are no results at all,
\* instead of when none of them is broken.
generate_report_BannerOnEmpty(base_url, res) ==
  LET broken_links == SelectSeq(res, LAMBDA r : r.is_broken)
  IN  [base_url |-> base_url,
       total    |-> Len(res),
       working  |-> Len(SelectSeq(res, LAMBDA r : ~r.is_broken)),
       broken   |-> Len(SelectSeq(res, LAMBDA r : r.is_broken)),
       blocks   |-> [i \in 1..Len(broken_links) |->
                       [url   |-> broken_links[i].url,
                        from  |-> broken_links[i].parent_page,
                        error |-> broken_links[i].error_message]],
       banner   |-> res = <<>>]

\* LinkChecker.generate_report: the counts, one block per broken result in
\* the order of self.results, and whether the success banner is emitted.
generate_report(base_url, res) ==
  LET broken_links == SelectSeq(res, LAMBDA r : r.is_broken)
  IN  [base_url |-> base_url,
       total    |-> Len(res),
       working  |-> Len(SelectSeq(res, LAMBDA r : ~r.is_broken)),
       broken   |-> Len(SelectSeq(res, LAMBDA r : r.is_broken)),
       blocks   |-> [i \in 1..Len(broken_links) |->
                       [url   |-> broken_links[i].url,
                        from  |-> broken_links[i].parent_page,
                        error |-> broken_links[i].error_message]],
       banner   |-> broken_links = <<>>]

\* main, lines 310-317: a URL without scheme gets "https://" prepended.
NormalizeURL(url) ==
  IF urlparse(url).scheme = "" THEN "https://" \o url ELSE url

\* main, lines 319-322: the normalized URL must have a netloc.
ValidURL(url) == urlparse(NormalizeURL(url)).netloc # ""

\* main testing "if results" instead of "if not results".
ExitCode_Inverted(returned) == IF returned # <<>> THEN 1 ELSE 0

\* main, lines 344-350: the process exit code for the value run_check returned.
ExitCode(returned) == IF returned = <<>> THEN 1 ELSE 0

\* The loop condition with <= in place of <.
LoopCondition_OffByOne(queue, count, budget) == queue # <<>> /\ count <= budget

\* run_check, line 187: the condition of the crawl loop.
LoopCondition(queue, count, budget) == queue # <<>> /\ count < budget

\* The membership test of line 137 left out.
IsNewLink_AlwaysNew(link, checked) == TRUE

\* check_links_on_page, line 137: is the link new to the visited-set?
IsNewLink(link, checked) == link \notin checked

RECURSIVE EnqueueNew(_, _, _)
\* run_check, lines 199-201: append each new link that is neither in the
\* visited-set nor already queued.
EnqueueNew(queue, links, checked) ==
  IF links = <<>> THEN queue
  ELSE LET link == Head(links)
       IN  IF link \notin checked /\ link \notin Range(queue)
           THEN EnqueueNew(Append(queue, link), Tail(links), checked)
           ELSE EnqueueNew(queue, Tail(links), checked)

\* ------------------------------------------------------------------ state
VARIABLES
  pc,             \* position of the single thread of control
  entry,          \* "main" (command line) or "api" (check_broken_links)
  args_url,       \* the URL the caller passed
  max_pages,      \* LinkChecker.max_pages
  base_url,       \* LinkChecker.base_url
  base_domain,    \* LinkChecker.base_domain
  checked_links,  \* LinkChecker.checked_links
  results,        \* LinkChecker.results
  urls_to_check,  \* run_check: the queue of pages
  checked_count,  \* run_check: pages crawled so far
  current_url,    \* run_check: the page being crawled
  html_content,   \* check_links_on_page: hrefs of the rendered page
  found_links,    \* check_links_on_page: links extracted from the page
  new_links,      \* check_links_on_page: links first seen on the page
  idx,            \* check_links_on_page: position of the for loop in found_links
  page_open,      \* the page of check_links_on_page is open
  exc,            \* the exception that is propagating, or "none"
  log,            \* messages logged by the current run
  ret,            \* value returned by the current run_check
  report,         \* <<>> or <<r>>, r the report generated after the run
  exitCode,       \* exit code of the process, -1 while it runs
  runs,           \* number of run_check calls on the instance
  sbxCreated,     \* sandbox sessions created by browser.create
  sbxDeleted,     \* calls of sbx.delete
  probed,         \* history: the calls of check_single_link and their navigation
  runNavs,        \* history: page.goto calls of the current run
  crawled,        \* history: pages check_links_on_page was called for in this run
  pagesOpened,    \* history: pages playwright.new_page returned
  pagesClosed     \* history: calls of page.close

vars == <<pc, entry, args_url, max_pages, base_url, base_domain, checked_links,
          results, urls_to_check, checked_count, current_url, found_links,
          new_links, idx, page_open, exc, log, ret, report, exitCode, runs,
          sbxCreated, sbxDeleted, probed, runNavs, crawled, html_content,
          pagesOpened, pagesClosed>>

\* The renderer's pages opened and closed so far.
pageCalls == <<pagesOpened, pagesClosed>>

\* Fields of the instance and histories that outlive one run.
instance == <<entry, args_url, max_pages, checked_links, results, sbxCreated,
              sbxDeleted, probed, exitCode, pageCalls>>

\* Locals of check_links_on_page.
pageLocals == <<current_url, html_content, found_links, new_links, idx, page_open>>

\* LinkChecker.__init__ for the collections, and the process before any call.
Init ==
  /\ pc = "start"
  /\ entry \in {"main", "api"}
  /\ args_url \in RawSeeds
  /\ max_pages \in 0..MaxPages
  /\ base_url = ""
  /\ base_domain = ""
  /\ checked_links = {}
  /\ results = <<>>
  /\ urls_to_check = <<>>
  /\ checked_count = 0
  /\ current_url = ""
  /\ html_content = <<>>
  /\ found_links = <<>>
  /\ new_links = <<>>
  /\ idx = 1
  /\ page_open = FALSE
  /\ exc = "none"
  /\ log = {}
  /\ ret = <<>>
  /\ report = <<>>
  /\ exitCode = -1
  /\ runs = 0
  /\ sbxCreated = 0
  /\ sbxDeleted = 0
  /\ probed = <<>>
  /\ runNavs = 0
  /\ crawled = <<>>
  /\ pagesOpened = 0
  /\ pagesClosed = 0

\* A call of run_check: its locals and the histories of the run start afresh.
EnterRunCheck ==
  /\ pc' = "run_check"
  /\ runs' = runs + 1
  /\ urls_to_check' = <<>>
  /\ checked_count' = 0
  /\ current_url' = ""
  /\ html_content' = <<>>
  /\ found_links' = <<>>
  /\ new_links' = <<>>
  /\ idx' = 1
  /\ page_open' = FALSE
  /\ exc' = "none"
  /\ log' = {}
  /\ ret' = <<>>
  /\ report' = <<>>
  /\ runNavs' = 0
  /\ crawled' = <<>>

\* ------------------------------------------------------------ main / API
\* main, lines 310-322: the URL has no netloc after normalization: exit(1).
MainInvalid ==
  /\ pc = "start" /\ entry = "main"
  /\ ~ValidURL(args_url)
  /\ pc' = "exited"
  /\ exitCode' = 1
  /\ UNCHANGED <<entry, args_url, max_pages, base_url, base_domain, checked_links,
                 results, urls_to_check, checked_count, pageLocals, pageCalls, exc, log, ret,
                 report, runs, sbxCreated, sbxDeleted, probed, runNavs, crawled>>

\* main, lines 310-336: the URL is valid; construct the checker, call run_check.
MainStart ==
  /\ pc = "start" /\ entry = "main"
  /\ ValidURL(args_url)
  /\ base_url' = NormalizeURL(args_url)
  /\ base_domain' = urlparse(NormalizeURL(args_url)).netloc
  /\ EnterRunCheck
  /\ UNCHANGED instance

\* check_broken_links, lines 266-267: construct the checker, call run_check.
CheckBrokenLinks ==
  /\ pc = "start" /\ entry = "api"
  /\ base_url' = args_url
  /\ base_domain' = urlparse(args_url).netloc
  /\ EnterRunCheck
  /\ UNCHANGED instance

\* The holder of the checker that check_broken_links returned calls
\* run_check on it again.
Rerun ==
  /\ pc = "idle" /\ entry = "api"
  /\ runs < MaxRuns
  /\ EnterRunCheck
  /\ UNCHANGED <<instance, base_url, base_domain>>

\* -------------------------------------------------------------- run_check
\* Variables a step outside check_links_on_page and the loop leaves alone.
setup == <<base_url, base_domain, checked_links, results, urls_to_check,
           checked_count, pageLocals, pageCalls, report, exitCode, runs, probed, runNavs,
           crawled, entry, args_url, max_pages>>

\* run_check, lines 162-167: import SandboxManager; ImportError returns [].
ImportSandboxManager ==
  /\ pc = "run_check"
  /\ \E ok \in BOOLEAN :
       IF ok
       THEN /\ pc' = "create_sandbox"
            /\ UNCHANGED <<log, ret>>
       ELSE /\ log' = log \cup {"import_manager"}
            /\ ret' = <<>>
            /\ pc' = "returned"
  /\ UNCHANGED <<setup, exc, sbxCreated, sbxDeleted>>

\* sandbox.py, lines 20-42 and run_check, lines 169-177 and 217-219: entering
\* create_browser_sandbox creates the session, or raises before the yield and
\* run_check returns [].
CreateBrowserSandbox ==
  /\ pc = "create_sandbox"
  /\ \E o \in {"ok", "sandbox_import_error", "sandbox_error"} :
       IF o = "ok"
       THEN /\ sbxCreated' = sbxCreated + 1
            /\ pc' = "get_playwright"
            /\ UNCHANGED <<log, ret>>
       ELSE /\ log' = log \cup {o, "error_outer"}
            /\ ret' = <<>>
            /\ pc' = "returned"
            /\ UNCHANGED sbxCreated
  /\ UNCHANGED <<base_url, base_domain, checked_links, results, urls_to_check,
                 checked_count, pageLocals, pageCalls, report, exitCode, runs, probed,
                 runNavs, crawled, entry, args_url, max_pages, exc, sbxDeleted>>

\* run_check, lines 180-185 and 211-215: entering sbx.get_playwright() gives
\* the browser and the queue starts with the base URL, or it raises and the
\* handlers log the failure.
GetPlaywright ==
  /\ pc = "get_playwright"
  /\ \E o \in {"ok", "playwright_missing", "error_inner"} :
       IF o = "ok"
       THEN /\ urls_to_check' = <<base_url>>
            /\ checked_count' = 0
            /\ pc' = "loop"
            /\ UNCHANGED log
       ELSE /\ log' = log \cup {o}
            /\ pc' = "sandbox_exit"
            /\ UNCHANGED <<urls_to_check, checked_count>>
  /\ UNCHANGED <<base_url, base_domain, checked_links, results, pageLocals, pageCalls,
                 report, exitCode, runs, probed, runNavs, crawled, entry,
                 args_url, max_pages, exc, ret, sbxCreated, sbxDeleted>>

\* run_check, lines 187-196: the loop condition holds and the dequeued URL is
\* not in the visited-set: add it and call check_links_on_page.
LoopDequeue ==
  /\ pc = "loop"
  /\ LoopCondition(urls_to_check, checked_count, max_pages)
  /\ Head(urls_to_check) \notin checked_links
  /\ current_url' = Head(urls_to_check)
  /\ urls_to_check' = Tail(urls_to_check)
  /\ checked_links' = checked_links \cup {Head(urls_to_check)}
  /\ crawled' = Append(crawled, Head(urls_to_check))
  /\ pc' = "new_page"
  /\ UNCHANGED <<base_url, base_domain, results, checked_count, html_content,
                 found_links, new_links, idx, page_open, pageCalls, report, exitCode, runs, probed,
                 runNavs, entry, args_url, max_pages, exc, log, ret,
                 sbxCreated, sbxDeleted>>

\* The continue written before the pop: the visited URL stays at the head of
\* the queue.
LoopContinue_NoPop ==
  /\ pc = "loop"
  /\ LoopCondition(urls_to_check, checked_count, max_pages)
  /\ Head(urls_to_check) \in checked_links
  /\ UNCHANGED vars

\* run_check, lines 187-191: the dequeued URL is already in the visited-set.
LoopContinue ==
  /\ pc = "loop"
  /\ LoopCondition(urls_to_check, checked_count, max_pages)
  /\ Head(urls_to_check) \in checked_links
  /\ urls_to_check' = Tail(urls_to_check)
  /\ UNCHANGED <<pc, base_url, base_domain, checked_links, results, checked_count,
                 pageLocals, pageCalls, report, exitCode, runs, probed, runNavs, crawled,
                 entry, args_url, max_pages, exc, log, ret, sbxCreated,
                 sbxDeleted>>

\* run_check, lines 187 and 209: the loop condition fails; the loop ends.
LoopExit ==
  /\ pc = "loop"
  /\ ~LoopCondition(urls_to_check, checked_count, max_pages)
  /\ log' = log \cup {"completed"}
  /\ pc' = "playwright_exit"
  /\ UNCHANGED <<setup, exc, ret, sbxCreated, sbxDeleted>>

\* run_check, lines 198-207: queue the new links, count the page.
Enqueue ==
  /\ pc = "enqueue"
  /\ urls_to_check' = EnqueueNew(urls_to_check, new_links, checked_links)
  /\ checked_count' = checked_count + 1
  /\ pc' = "loop"
  /\ UNCHANGED <<base_url, base_domain, checked_links, results, pageLocals, pageCalls,
                 report, exitCode, runs, probed, runNavs, crawled, entry,
                 args_url, max_pages, exc, log, ret, sbxCreated, sbxDeleted>>

\* run_check, lines 180 and 211-215: leaving the playwright context, normally
\* or with the exception that left the loop; __exit__ may raise itself.  The
\* handler logs whatever exception arrives, with its text, and swallows it.
PlaywrightExit ==
  /\ pc = "playwright_exit"
  /\ \E raises \in BOOLEAN :
       log' = IF raises THEN log \cup {"error_inner", "playwright_exit"}
              ELSE IF exc # "none" THEN log \cup {"error_inner", exc}
              ELSE log
  /\ exc' = "none"
  /\ pc' = "sandbox_exit"
  /\ UNCHANGED <<setup, ret, sbxCreated, sbxDeleted>>

\* create_browser_sandbox without try/finally around the yield: the session
\* is deleted only when the crawl logged no error.
SandboxExit_NoFinally ==
  /\ pc = "sandbox_exit"
  /\ sbxDeleted' = IF "error_inner" \in log THEN sbxDeleted ELSE sbxDeleted + 1
  /\ \E ok \in BOOLEAN :
       log' = IF ok THEN log ELSE log \cup {"cleanup_error"}
  /\ ret' = results
  /\ pc' = "returned"
  /\ UNCHANGED <<setup, exc, sbxCreated>>

\* sandbox.py, lines 44-52 and run_check, line 221: leaving
\* create_browser_sandbox deletes the session (a failing delete is logged),
\* then run_check returns self.results.
SandboxExit ==
  /\ pc = "sandbox_exit"
  /\ sbxDeleted' = sbxDeleted + 1
  /\ \E ok \in BOOLEAN :
       log' = IF ok THEN log ELSE log \cup {"cleanup_error"}
  /\ ret' = results
  /\ pc' = "returned"
  /\ UNCHANGED <<setup, exc, sbxCreated>>

\* main, lines 336-350: generate the report, exit with the code for the
\* returned value.
MainFinish ==
  /\ pc = "returned" /\ entry = "main"
  /\ report' = <<generate_report(base_url, results)>>
  /\ exitCode' = ExitCode(ret)
  /\ pc' = "exited"
  /\ UNCHANGED <<base_url, base_domain, checked_links, results, urls_to_check,
                 checked_count, pageLocals, pageCalls, runs, probed, runNavs, crawled,
                 entry, args_url, max_pages, exc, log, ret, sbxCreated,
                 sbxDeleted>>

\* check_broken_links, lines 267-271: generate the report, return the checker.
CheckBrokenLinksFinish ==
  /\ pc = "returned" /\ entry = "api" /\ runs = 1
  /\ report' = <<generate_report(base_url, results)>>
  /\ pc' = "idle"
  /\ UNCHANGED <<base_url, base_domain, checked_links, results, urls_to_check,
                 checked_count, pageLocals, pageCalls, runs, probed, runNavs, crawled,
                 entry, args_url, max_pages, exc, log, ret, sbxCreated,
                 sbxDeleted, exitCode>>

\* A later run_check call returns to its caller.
RerunReturn ==
  /\ pc = "returned" /\ entry = "api" /\ runs > 1
  /\ pc' = "idle"
  /\ UNCHANGED <<setup, exc, log, ret, sbxCreated, sbxDeleted>>

\* ---------------------------------------------------- check_links_on_page
\* Variables no step of check_links_on_page changes.
outside == <<base_url, base_domain, urls_to_check, checked_count, report,
             exitCode, runs, crawled, entry, args_url, max_pages, log, ret,
             sbxCreated, sbxDeleted>>

\* check_links_on_page, line 125: playwright.new_page returns a page, or
\* raises before the try block is entered.
NewPage ==
  /\ pc = "new_page"
  /\ \E ok \in BOOLEAN :
       IF ok
       THEN /\ page_open' = TRUE
            /\ pagesOpened' = pagesOpened + 1
            /\ pc' = "page_goto"
            /\ UNCHANGED exc
       ELSE /\ exc' = "new_page"
            /\ pc' = "playwright_exit"
            /\ UNCHANGED <<page_open, pagesOpened>>
  /\ UNCHANGED <<outside, checked_links, results, probed, runNavs, current_url,
                 html_content, found_links, new_links, idx, pagesClosed>>

\* check_links_on_page, line 128: page.goto(url) returns or raises; raising
\* runs the finally block and leaves the function.
PageGoto ==
  /\ pc = "page_goto"
  /\ runNavs' = runNavs + 1
  /\ \E nav \in NavOutcomes :
       IF ~nav.raised
       THEN /\ pc' = "page_content"
            /\ UNCHANGED exc
       ELSE /\ exc' = "page.goto"
            /\ pc' = "page_close"
  /\ UNCHANGED <<outside, checked_links, results, probed, pageLocals, pageCalls>>

\* check_links_on_page, lines 129-133: page.content() returns the rendered
\* page or raises; extract_links gives the links of the page, or raises on an
\* href that urljoin cannot resolve.
PageContent ==
  /\ pc = "page_content"
  /\ \/ /\ exc' = "page.content"
        /\ pc' = "page_close"
        /\ UNCHANGED <<html_content, found_links, new_links, idx>>
     \/ \E html \in Contents :
          /\ html_content' = html
          /\ IF ExtractRaises(html)
             THEN /\ exc' = "extract_links"
                  /\ pc' = "page_close"
                  /\ UNCHANGED <<found_links, new_links, idx>>
             ELSE /\ found_links' = extract_links(html, current_url, base_domain)
                  /\ new_links' = <<>>
                  /\ idx' = 1
                  /\ pc' = "for_links"
                  /\ UNCHANGED exc
  /\ UNCHANGED <<outside, checked_links, results, probed, runNavs, current_url,
                 page_open, pageCalls>>

\* The for loop going on to the probe without adding the link to the
\* visited-set.
ForLinkAdd_NoAdd ==
  /\ pc = "for_links"
  /\ idx <= Len(found_links)
  /\ IsNewLink(found_links[idx], checked_links)
  /\ new_links' = Append(new_links, found_links[idx])
  /\ pc' = "probe"
  /\ UNCHANGED <<outside, exc, checked_links, results, probed, runNavs,
                 current_url, html_content, found_links, idx, page_open,
                 pageCalls>>

\* check_links_on_page, lines 136-139: the next link is new: add it to the
\* visited-set and to new_links.
ForLinkAdd ==
  /\ pc = "for_links"
  /\ idx <= Len(found_links)
  /\ IsNewLink(found_links[idx], checked_links)
  /\ checked_links' = checked_links \cup {found_links[idx]}
  /\ new_links' = Append(new_links, found_links[idx])
  /\ pc' = "probe"
  /\ UNCHANGED <<outside, exc, results, probed, runNavs, current_url,
                 html_content, found_links, idx, page_open, pageCalls>>

\* The for loop inserting each result at the front of self.results.
ForLinkProbe_Prepend ==
  /\ pc = "probe"
  /\ \E nav \in NavOutcomes :
       /\ results' = <<check_single_link(found_links[idx], current_url, nav)>> \o results
       /\ probed' = Append(probed, [url |-> found_links[idx], raised |-> nav.raised,
                                    msg |-> nav.msg])
  /\ runNavs' = runNavs + 1
  /\ idx' = idx + 1
  /\ pc' = "for_links"
  /\ UNCHANGED <<outside, exc, checked_links, current_url, html_content,
                 found_links, new_links, page_open, pageCalls>>

\* check_links_on_page, lines 141-148: probe the link that was just added
\* and append the result; the loop goes on to the next link.
ForLinkProbe ==
  /\ pc = "probe"
  /\ \E nav \in NavOutcomes :
       /\ results' = Append(results, check_single_link(found_links[idx], current_url, nav))
       /\ probed' = Append(probed, [url |-> found_links[idx], raised |-> nav.raised,
                                    msg |-> nav.msg])
  /\ runNavs' = runNavs + 1
  /\ idx' = idx + 1
  /\ pc' = "for_links"
  /\ UNCHANGED <<outside, exc, checked_links, current_url, html_content,
                 found_links, new_links, page_open, pageCalls>>

\* check_links_on_page, lines 136-137: the next link is in the visited-set.
ForLinkSkip ==
  /\ pc = "for_links"
  /\ idx <= Len(found_links)
  /\ ~IsNewLink(found_links[idx], checked_links)
  /\ idx' = idx + 1
  /\ UNCHANGED <<outside, pc, exc, checked_links, results, probed, runNavs,
                 current_url, html_content, found_links, new_links, page_open,
                 pageCalls>>

\* check_links_on_page, line 150: the for loop is over; return new_links
\* through the finally block.
ForLinkDone ==
  /\ pc = "for_links"
  /\ idx > Len(found_links)
  /\ pc' = "page_close"
  /\ UNCHANGED <<outside, exc, checked_links, results, probed, runNavs,
                 pageLocals, pageCalls>>

\* The close written after the for loop instead of in a finally block: a
\* pending exception leaves the function without page.close().
PageClose_NoFinally ==
  /\ pc = "page_close"
  /\ IF exc # "none"
     THEN /\ pc' = "playwright_exit"
          /\ UNCHANGED <<page_open, exc, pagesClosed>>
     ELSE /\ pagesClosed' = pagesClosed + 1
          /\ \E ok \in BOOLEAN :
               IF ok
               THEN /\ page_open' = FALSE
                    /\ pc' = "enqueue"
                    /\ UNCHANGED exc
               ELSE /\ page_open' \in BOOLEAN
                    /\ exc' = "page.close"
                    /\ pc' = "playwright_exit"
  /\ UNCHANGED <<outside, checked_links, results, probed, runNavs, current_url,
                 html_content, found_links, new_links, idx, pagesOpened>>

\* check_links_on_page, lines 152-153: page.close() in the finally block.  A
\* pending exception goes on propagating; a failing close raises instead and
\* may leave the page open.
PageClose ==
  /\ pc = "page_close"
  /\ pagesClosed' = pagesClosed + 1
  /\ \E ok \in BOOLEAN :
       IF ok
       THEN /\ page_open' = FALSE
            /\ pc' = IF exc = "none" THEN "enqueue" ELSE "playwright_exit"
            /\ UNCHANGED exc
       ELSE /\ page_open' \in BOOLEAN
            /\ exc' = "page.close"
            /\ pc' = "playwright_exit"
  /\ UNCHANGED <<outside, checked_links, results, probed, runNavs, current_url,
                 html_content, found_links, new_links, idx, pagesOpened>>

\* ---------------------------------------------------------- specification
Next ==
  \/ MainInvalid
  \/ MainStart
  \/ CheckBrokenLinks
  \/ Rerun
  \/ ImportSandboxManager
  \/ CreateBrowserSandbox
  \/ GetPlaywright
  \/ LoopDequeue
  \/ LoopContinue
  \/ LoopExit
  \/ NewPage
  \/ PageGoto
  \/ PageContent
  \/ ForLinkAdd
  \/ ForLinkProbe
  \/ ForLinkSkip
  \/ ForLinkDone
  \/ PageClose
  \/ Enqueue
  \/ PlaywrightExit
  \/ SandboxExit
  \/ MainFinish
  \/ CheckBrokenLinksFinish
  \/ RerunReturn

Spec == Init /\ [][Next]_vars

TypeOK ==
  /\ pc \in {"start", "run_check", "create_sandbox", "get_playwright", "loop",
             "new_page", "page_goto", "page_content", "for_links", "probe",
             "page_close", "enqueue", "playwright_exit", "sandbox_exit", "returned", "idle",
             "exited"}
  /\ checked_links \subseteq URLStrings
  /\ Range(urls_to_check) \subseteq URLStrings
  /\ Range(found_links) \subseteq URLStrings
  /\ checked_count \in 0..MaxPages
  /\ runs \in 0..MaxRuns
  /\ exitCode \in {-1, 0, 1}
  /\ Len(report) <= 1

\* ------------------------------------------------------------ properties
\* Positions of results that record the URL l.
ResultsFor(l) == {i \in 1..Len(results) : results[i].url = l}

\* The steps of one call of check_links_on_page, up to counting the page.
InPage == pc \in {"new_page", "page_goto", "page_content", "for_links", "probe",
                  "page_close", "enqueue"}

\* The session could not be provisioned in the current run.
ProvisionFailed == log \cap {"import_manager", "error_outer"} # {}

\* C1: no URL appears twice in results: check_single_link is called at most
\* once per URL, and len(results) is the number of distinct URLs probed.
C1_NoDuplicateResults ==
  /\ \A i, j \in 1..Len(results) : results[i].url = results[j].url => i = j
  /\ \A i, j \in 1..Len(probed) : probed[i].url = probed[j].url => i = j
  /\ Len(results) = Cardinality({probed[i].url : i \in 1..Len(probed)})

\* C1 witness: a page that carries the same link twice has been crawled and
\* the link has one result.
C1_Witness ==
  /\ pc = "enqueue"
  /\ Len(found_links) = 2
  /\ found_links[1] = found_links[2]
  /\ Cardinality(ResultsFor(found_links[1])) = 1

\* C2: every link newly discovered on a crawled page is queued and, while
\* fewer than max_pages pages were crawled, crawled itself: when the loop
\* ends below the budget, every link first seen on the last crawled page has
\* had check_links_on_page called for it.
C2_DiscoveredLinksAreCrawled ==
  (pc = "playwright_exit" /\ exc = "none" /\ checked_count < max_pages)
    => \A l \in Range(new_links) : l \in Range(crawled)

\* C3: on a page that loaded, each link not yet in the visited-set is probed
\* at once (the step after it is found new is its probe) and one LinkResult
\* with parent_page = the crawled page is appended; when the page is done
\* every link of it is visited and every new one has exactly one result.
C3_NewLinksProbedOnce ==
  /\ [][(pc = "for_links" /\ idx <= Len(found_links)
           /\ found_links[idx] \notin checked_links)
          => /\ pc' = "probe"
             /\ found_links[idx] \in checked_links'
             /\ idx' = idx /\ found_links' = found_links]_vars
  /\ [][pc = "probe"
          => /\ Len(results') = Len(results) + 1
             /\ SubSeq(results', 1, Len(results)) = results
             /\ results'[Len(results')].url = found_links[idx]
             /\ results'[Len(results')].parent_page = current_url
             /\ pc' = "for_links"]_vars
  /\ [](pc = "enqueue" =>
          \A l \in Range(found_links) :
            /\ l \in checked_links
            /\ l \in Range(new_links) =>
                 /\ Cardinality(ResultsFor(l)) = 1
                 /\ \A i \in ResultsFor(l) : results[i].parent_page = current_url)

\* C3 witness: the seed page with one reachable and one failing link has
\* been crawled: two results, one of them broken.
C3_Witness ==
  /\ pc = "enqueue"
  /\ current_url = "https://a.com/"
  /\ Len(results) = 2
  /\ results[1].url = "https://a.com/about" /\ ~results[1].is_broken
  /\ results[2].url = "https://a.com/missing" /\ results[2].is_broken
  /\ results[2].parent_page = "https://a.com/"

\* C4: a failing page.goto or page.content of a dequeued page skips that page
\* only: the failure never leaves the crawl loop as an exception.
C4_PageFailureKeepsLoop ==
  ~(pc = "playwright_exit" /\ exc \in {"page.goto", "page.content"})

\* C5: a result is broken exactly when the navigation of its probe raised;
\* then error_message is the renderer's message, otherwise it is empty; no
\* probe failure propagates, so the for loop goes on to the remaining links.
C5_BrokenIffNavigationRaised ==
  /\ Len(results) = Len(probed)
  /\ \A i \in 1..Len(results) :
       /\ results[i].url = probed[i].url
       /\ results[i].is_broken = probed[i].raised
       /\ probed[i].raised => results[i].error_message = probed[i].msg
       /\ ~probed[i].raised => results[i].error_message = ""
  /\ pc \in {"for_links", "probe"} => exc = "none"
  /\ (pc = "page_close" /\ exc = "none") => idx > Len(found_links)

\* C5 witness: a probe raised and a later link of the same page was probed
\* and found reachable.
C5_Witness ==
  /\ pc = "for_links"
  /\ Len(results) = 2
  /\ results[1].is_broken /\ results[1].error_message \in Msgs
  /\ ~results[2].is_broken
  /\ results[1].parent_page = results[2].parent_page

\* C6: every session that was created is deleted exactly once on every way
\* out of run_check, and nothing is deleted that was not created: outside the
\* sandbox context as many sessions were deleted as created, inside it
\* exactly one created session awaits its delete.
C6_SessionDeletedExactlyOnce ==
  /\ sbxDeleted <= sbxCreated
  /\ sbxCreated <= runs
  /\ pc \in {"start", "run_check", "create_sandbox", "returned", "idle", "exited"}
       => sbxDeleted = sbxCreated
  /\ pc \in {"get_playwright", "loop", "playwright_exit", "sandbox_exit"} \/ InPage
       => sbxCreated = sbxDeleted + 1

\* C6 witness: run_check has returned after an exception inside the crawl of
\* a page, and the one session it created has been deleted.
C6_Witness ==
  /\ pc = "returned"
  /\ crawled # <<>>
  /\ "error_inner" \in log
  /\ sbxCreated = 1 /\ sbxDeleted = 1

\* C7: at most max_pages pages are crawled in one run; the budget is tested
\* only between pages, so a page that was started is below the budget until
\* it is counted, and the for loop is left only when every link found on the
\* page is visited and every new one has its result.
C7_PageBudget ==
  /\ [](Len(crawled) <= max_pages)
  /\ [](InPage => checked_count < max_pages /\ Len(crawled) = checked_count + 1)
  /\ [][(pc \in {"for_links", "probe"} /\ pc' \notin {"for_links", "probe"})
          => /\ idx > Len(found_links)
             /\ \A l \in Range(found_links) : l \in checked_links
             /\ \A l \in Range(new_links) : ResultsFor(l) # {}]_vars

\* C7 witness: the max_pages-th page has been crawled and the two links found
\* on it have both been probed.
C7_Witness ==
  /\ pc = "enqueue"
  /\ max_pages > 0
  /\ checked_count + 1 = max_pages
  /\ Len(new_links) = 2
  /\ \A l \in Range(new_links) : ResultsFor(l) # {}

\* C8: main ends a crawl whose seed page loaded and carried no link with an
\* empty result collection and with an exit code other than the one of a run
\* whose session could not be provisioned (such a run returns [], so its
\* exit code is ExitCode(<<>>)).
C8_EmptySiteExitDiffers ==
  (pc = "exited" /\ crawled = <<base_url>> /\ found_links = <<>>
     /\ log = {"completed"})
    => /\ results = <<>>
       /\ exitCode # ExitCode(<<>>)

\* C9: the report of a run whose session could not be provisioned does not
\* show the success banner "No broken links found!".
C9_ReportDistinguishesFailure ==
  (report # <<>> /\ ProvisionFailed) => ~report[1].banner

\* C10: when the session cannot be provisioned, run_check returns an empty
\* collection, the run navigates to no page and probes no link, and main
\* exits with a non-zero code.
C10_ProvisionFailure ==
  ProvisionFailed =>
    /\ pc \in {"returned", "idle", "exited"}
    /\ ret = <<>>
    /\ runNavs = 0
    /\ crawled = <<>>
    /\ runs = 1 => (probed = <<>> /\ results = <<>>)
    /\ pc = "exited" => exitCode # 0

\* C10 witness: main has exited after create_browser_sandbox raised.
C10_Witness ==
  /\ pc = "exited"
  /\ "error_outer" \in log
  /\ args_url = "https://a.com/"

\* C11: an unexpected error in orchestration after the session was acquired
\* (new_page, page.content or page.close raising during the crawl loop) makes
\* run_check return an empty collection, even if links were already probed.
C11_OrchestrationErrorReturnsEmpty ==
  (pc = "returned" /\ log \cap {"new_page", "page.content", "page.close"} # {})
    => ret = <<>>

\* C12: a link with a host other than the seed's host never enters the
\* visited-set or the queue and is never probed (a link without any host
\* counts as internal).
C12_ExternalLinksNeverEnter ==
  \A u \in checked_links \cup Range(urls_to_check) \cup Range(found_links)
             \cup {probed[i].url : i \in 1..Len(probed)}
             \cup {results[i].url : i \in 1..Len(results)} :
    urlparse(u).netloc \in {"", base_domain}

\* C12 witness: a page of a.com that carries a link to b.org and an internal
\* link has been gone through, and only the internal link was taken.
C12_Witness ==
  /\ pc = "for_links"
  /\ base_domain = "a.com"
  /\ "https://b.org/" \in Range(html_content)
  /\ idx > Len(found_links)
  /\ Len(results) = 1

\* C13: every URL in the visited-set, the seed or a link resolved by urljoin,
\* is absolute, with a scheme and a host, also when the href is a scheme-only
\* target such as mailto:.  Stated for runs started by main, whose seed is
\* validated, so that a violation is due to a link.
C13_VisitedAreAbsolute ==
  entry = "main" =>
    \A u \in checked_links :
      /\ urlparse(u).scheme # ""
      /\ urlparse(u).netloc # ""

\* C14: when the seed URL cannot be resolved to an absolute URL with a host,
\* the run ends at once with zero results: no session is opened and nothing
\* is navigated to or probed, whichever entry point started the run.
C14_MalformedSeedAborts ==
  ~ValidURL(args_url) =>
    /\ sbxCreated = 0
    /\ runNavs = 0
    /\ crawled = <<>>
    /\ probed = <<>>
    /\ results = <<>>

\* C15: the visited-set and the result collection are fresh at the start of
\* every run: whenever run_check begins, checked_links and results are empty.
C15_FreshStatePerRun ==
  pc = "run_check" => (checked_links = {} /\ results = <<>>)

\* The subsequence of s that keeps the first occurrence of every element.
FirstOccurrences(s) ==
  LET keep == {i \in 1..Len(s) : \A j \in 1..(i - 1) : s[j] # s[i]}
      Nth(k) == CHOOSE i \in keep : Cardinality({j \in keep : j <= i}) = k
  IN  [k \in 1..Cardinality(keep) |-> s[Nth(k)]]

\* The links a fresh instance discovers on the seed page, in document order:
\* a function of the rendered page alone.
Discovered ==
  IF ExtractRaises(html_content) THEN <<>>
  ELSE SelectSeq(FirstOccurrences(extract_links(html_content, base_url, base_domain)),
                 LAMBDA l : l # base_url)

\* Position in results of the result for URL u.
PositionOf(u) == CHOOSE i \in 1..Len(results) : results[i].url = u

\* C16: on a fresh instance the result collection is a function of the
\* rendered page and of the navigation outcomes, so two runs given the same
\* site and outcomes produce the same results element by element: result i is
\* the i-th link in order of first discovery with the i-th navigation
\* outcome; and the report lists the broken links in the order of results.
C16_ResultsInDiscoveryOrder ==
  runs = 1 =>
    /\ Len(results) <= Len(Discovered)
    /\ \A i \in 1..Len(results) :
         results[i] = check_single_link(Discovered[i], base_url,
                        [raised |-> probed[i].raised, msg |-> probed[i].msg])
    /\ (pc \notin {"for_links", "probe"} \/ idx > Len(found_links))
         => Len(results) = Len(Discovered)
    /\ report # <<>> =>
         \A k \in 1..(Len(report[1].blocks) - 1) :
           PositionOf(report[1].blocks[k].url) < PositionOf(report[1].blocks[k + 1].url)

\* C16 witness: two links were discovered, both are broken, and the report
\* has been generated.
C16_Witness ==
  /\ runs = 1
  /\ report # <<>>
  /\ Len(results) = 2
  /\ Len(report[1].blocks) = 2
  /\ results[1].url = "https://a.com/missing"
  /\ results[2].url = "https://a.com/about"

\* Positions of the broken results.
BrokenPositions == {i \in 1..Len(results) : results[i].is_broken}

\* Position of the k-th broken result.
NthBroken(k) ==
  CHOOSE i \in BrokenPositions : Cardinality({j \in BrokenPositions : j <= i}) = k

\* C17: the report states total = len(results), working = the number of
\* results that are not broken, broken = the number that are, one block
\* (URL, From, Error) per broken result, and the success banner exactly when
\* no result is broken.
C17_ReportCounts ==
  report # <<>> =>
    LET r == report[1]
    IN  /\ r.total = Len(results)
        /\ r.working = Cardinality((1..Len(results)) \ BrokenPositions)
        /\ r.broken = Cardinality(BrokenPositions)
        /\ r.total = r.working + r.broken
        /\ Len(r.blocks) = Cardinality(BrokenPositions)
        /\ \A k \in 1..Len(r.blocks) :
             /\ r.blocks[k].url = results[NthBroken(k)].url
             /\ r.blocks[k].from = results[NthBroken(k)].parent_page
             /\ r.blocks[k].error = results[NthBroken(k)].error_message
        /\ r.banner <=> (BrokenPositions = {})

\* C17 witness: a report over one working and one broken result.
C17_Witness ==
  /\ report # <<>>
  /\ Len(results) = 2
  /\ ~results[1].is_broken
  /\ results[2].is_broken
  /\ report[1].blocks[1].error \in Msgs

\* C18: checked_links only grows: no step removes a URL from it; a link is in
\* the visited-set, and has no result yet, in the state from which
\* check_single_link is invoked for it; hence every URL of results is a
\* member of checked_links in every reachable state.
C18_VisitedSetGrows ==
  /\ [][checked_links \subseteq checked_links']_vars
  /\ [](pc = "probe" => /\ found_links[idx] \in checked_links
                        /\ ResultsFor(found_links[idx]) = {})
  /\ [][Len(probed') > Len(probed)
          => /\ probed'[Len(probed')].url \in checked_links
             /\ probed'[Len(probed')].url = found_links[idx]]_vars
  /\ [](\A i \in 1..Len(results) : results[i].url \in checked_links)

\* C18 witness: the second link of the seed page has been added to the
\* visited-set and is about to be probed, the first one has its result.
C18_Witness ==
  /\ pc = "probe"
  /\ idx = 2
  /\ Len(results) = 1
  /\ {current_url, found_links[1], found_links[2]} \subseteq checked_links
  /\ Cardinality(checked_links) = 3

\* The positions of check_links_on_page between new_page returning and the
\* finally block having run.
PageHeld == pc \in {"page_goto", "page_content", "for_links", "probe", "page_close"}

\* C19: every page that new_page opened has page.close() called on it exactly
\* once before check_links_on_page returns or raises, also when page.goto,
\* page.content or extract_links raised; never is more than one page opened
\* and not yet closed.
C19_PageClosedOnce ==
  /\ pagesClosed <= pagesOpened
  /\ pagesOpened - pagesClosed <= 1
  /\ PageHeld => pagesOpened = pagesClosed + 1 /\ page_open
  /\ ~PageHeld => pagesOpened = pagesClosed
  /\ pc = "enqueue" => ~page_open
  /\ (pc = "playwright_exit" /\ exc \in {"page.goto", "page.content", "extract_links"})
       => ~page_open

\* C19 witness: link extraction raised on the one page that was opened, and
\* the page has been closed when the exception leaves check_links_on_page.
C19_Witness ==
  /\ pc = "playwright_exit"
  /\ exc = "extract_links"
  /\ pagesOpened = 1
  /\ pagesClosed = 1
  /\ ~page_open

\* ------------------------------------------------------------- termination
\* The steps of one run_check call, from its first statement to its return.
RunStep ==
  \/ ImportSandboxManager
  \/ CreateBrowserSandbox
  \/ GetPlaywright
  \/ LoopDequeue
  \/ LoopContinue
  \/ LoopExit
  \/ Enqueue
  \/ PlaywrightExit
  \/ SandboxExit
  \/ NewPage
  \/ PageGoto
  \/ PageContent
  \/ ForLinkAdd
  \/ ForLinkProbe
  \/ ForLinkSkip
  \/ ForLinkDone
  \/ PageClose

\* The program with a running run_check call going on: the interpreter takes
\* the next statement and every renderer call returns or raises.
FairSpec == Init /\ [][Next]_vars /\ WF_vars(RunStep)

\* C20: every run_check call returns, for every page content (pages linking
\* to themselves included) and every max_pages >= 0: a pass of the loop head
\* that goes on removes the head of the frontier, the loop appends to the
\* frontier only URLs that are neither visited nor queued, it is left only
\* with the frontier empty or max_pages pages counted, and the call that
\* got a session returns self.results.
C20_RunCheckTerminates ==
  /\ (pc = "run_check") ~> (pc = "returned")
  /\ (pc = "loop") ~> (pc = "returned")
  /\ [][(pc = "loop" /\ pc' \in {"loop", "new_page"})
          => urls_to_check' = Tail(urls_to_check)]_vars
  /\ [][(pc = "loop" /\ pc' \notin {"loop", "new_page"})
          => /\ urls_to_check = <<>> \/ checked_count >= max_pages
             /\ pc' = "playwright_exit"]_vars
  /\ [][pc = "enqueue"
          => /\ Len(urls_to_check') >= Len(urls_to_check)
             /\ SubSeq(urls_to_check', 1, Len(urls_to_check)) = urls_to_check
             /\ \A i \in (Len(urls_to_check) + 1)..Len(urls_to_check') :
                  /\ urls_to_check'[i] \notin checked_links
                  /\ \A j \in 1..(i - 1) : urls_to_check'[j] # urls_to_check'[i]]_vars
  /\ [][(pc # "returned" /\ pc' = "returned")
          => ret' = IF ProvisionFailed' THEN <<>> ELSE results]_vars

\* C20 witness: a run whose seed page links to itself has crawled that page,
\* left the loop with the frontier empty and returned its results.
C20_Witness ==
  /\ pc = "returned"
  /\ "completed" \in log
  /\ max_pages = MaxPages
  /\ crawled = <<base_url>>
  /\ base_url \in Range(found_links)
  /\ urls_to_check = <<>>
  /\ Len(results) = 1
  /\ ret = results

====
